---- MODULE Spec2Model ----
(***************************************************************************)
(* Identity reconciliation (POST /identify) of src/main.py.                *)
(*                                                                         *)
(* The contact table is a sequence of rows; a row's id is its index (the   *)
(* INTEGER PRIMARY KEY of a table no row is ever deleted from).  createdAt *)
(* and updatedAt are server-side func.now() values: the database clock     *)
(* `now` has a coarse resolution, so that several rows may carry the same  *)
(* timestamp, and it never runs backwards.                                 *)
(***************************************************************************)
EXTENDS Integers, Sequences, FiniteSets, TLC

\* ------------------------------------------------------------ bounds
MaxRecords == 3          \* rows the table may hold
MaxClock == 1            \* the database clock runs over 0..MaxClock
NumWorkers == 2          \* threads of the pool serving requests at once

\* ------------------------------------------------------------ values
Null == "null"           \* Python None / SQL NULL
EmptyStr == ""           \* a phoneNumber of "" passes Optional[str]
Emails == {"e1", "e2"}
PhoneNumbers == {"p1", "p2"}
primary == "primary"
secondary == "secondary"
NoId == 0                \* linkedId IS NULL

RequestEmails == Emails \cup {Null}
RequestPhones == PhoneNumbers \cup {Null, EmptyStr}

\* contacts: the contact table; now: the database clock; last: the outcome
\* of the last request served alone; sess: the session of each worker thread
\* serving a request; initial: the table the concurrent requests found
VARIABLES contacts, now, last, sess, initial

vars == <<contacts, now, last, sess, initial>>

\* ------------------------------------------------------------ helpers
Range(s) == {s[i] : i \in DOMAIN s}

\* Python truthiness of an Optional[str]
Truthy(v) == v # Null /\ v # EmptyStr

\* all the orders in which a SELECT without ORDER BY may return a set of rows
RECURSIVE Orderings(_)
Orderings(S) ==
    IF S = {} THEN {<<>>}
    ELSE UNION {{<<x>> \o p : p \in Orderings(S \ {x})} : x \in S}

\* list(dict.fromkeys(s)): first occurrences, in order
RECURSIVE Dedupe(_)
Dedupe(s) ==
    IF s = <<>> THEN <<>>
    ELSE LET r == Dedupe(SubSeq(s, 1, Len(s) - 1))
             x == s[Len(s)]
         IN IF x \in Range(r) THEN r ELSE Append(r, x)

\* a sort that prefers the youngest row
SortKey_Youngest(view, c) == 0 - view[c].createdAt

\* the key of the two sorted() calls
SortKey(view, c) == view[c].createdAt

\* sorted(s, key=...): Python's sort is stable, equal keys keep their order
RECURSIVE SortedByCreatedAt(_, _)
SortedByCreatedAt(view, s) ==
    IF s = <<>> THEN <<>>
    ELSE LET r == SortedByCreatedAt(view, SubSeq(s, 1, Len(s) - 1))
             x == s[Len(s)]
             k == Cardinality({i \in DOMAIN r : SortKey(view, r[i]) <= SortKey(view, x)})
         IN SubSeq(r, 1, k) \o <<x>> \o SubSeq(r, k + 1, Len(r))

\* ------------------------------------------------------------ the table
Contact(email, phoneNumber, linkedId, linkPrecedence, t) ==
    [email |-> email, phoneNumber |-> phoneNumber, linkedId |-> linkedId,
     linkPrecedence |-> linkPrecedence, createdAt |-> t, updatedAt |-> t]

Ids(db) == DOMAIN db

\* db.query(Contact).filter(Contact.email == email)
ByEmail(db, email) == {c \in Ids(db) : db[c].email = email}

\* db.query(Contact).filter(Contact.phoneNumber == phone_number)
ByPhone(db, phone_number) == {c \in Ids(db) : db[c].phoneNumber = phone_number}

\* contact.secondary_contacts: the rows whose linkedId is the contact's id
secondary_contacts(db, c) == {d \in Ids(db) : db[d].linkedId = c}

\* ------------------------------------------------------------ the handler
\* unique_matching_contacts, for one order of each query's rows
unique_matching_contacts(eRows, pRows) == Dedupe(eRows \o pRows)

\* the primaries appended for the matched secondaries, in order
RECURSIVE TraceBack(_, _, _)
TraceBack(view, prims, secs) ==
    IF secs = <<>> THEN prims
    ELSE LET p == view[Head(secs)].linkedId
         IN TraceBack(view,
                      IF p # NoId /\ p \notin Range(prims) THEN Append(prims, p) ELSE prims,
                      Tail(secs))

\* primary_contacts: the matched primaries and the owners of the matched
\* secondaries, unique, sorted by createdAt
primary_contacts(view, matched) ==
    LET prims == SortedByCreatedAt(view,
                    SelectSeq(matched, LAMBDA c : view[c].linkPrecedence = primary))
        secs == SelectSeq(matched, LAMBDA c : view[c].linkPrecedence = secondary)
    IN SortedByCreatedAt(view, Dedupe(TraceBack(view, prims, secs)))

main_primary_contact(prims) == prims[1]

\* the primaries to demote
Demoted(prims) == {prims[i] : i \in 2..Len(prims)}

\* a merge that forgets the children of the demoted primaries
contacts_to_update_NoChildren(db, prims) == Demoted(prims)

\* contacts_to_update: the demoted primaries and their children
contacts_to_update(db, prims) ==
    Demoted(prims) \cup UNION {secondary_contacts(db, c) : c \in Demoted(prims)}

\* a merge that links the demoted primaries but leaves them primary
MergedView_StillPrimary(view, db, prims) ==
    [c \in DOMAIN view |->
        IF c \in contacts_to_update(db, prims)
        THEN [view[c] EXCEPT !.linkedId = main_primary_contact(prims)]
        ELSE view[c]]

\* a merge that makes the re-linked children primary
MergedView_PromotesChildren(view, db, prims) ==
    [c \in DOMAIN view |->
        IF c \in Demoted(prims)
        THEN [view[c] EXCEPT !.linkedId = main_primary_contact(prims),
                             !.linkPrecedence = secondary]
        ELSE IF c \in contacts_to_update(db, prims)
        THEN [view[c] EXCEPT !.linkedId = main_primary_contact(prims),
                             !.linkPrecedence = primary]
        ELSE view[c]]

\* the rows as the session holds them after the merge loop
MergedView(view, db, prims) ==
    [c \in DOMAIN view |->
        IF c \in Demoted(prims)
        THEN [view[c] EXCEPT !.linkedId = main_primary_contact(prims),
                             !.linkPrecedence = secondary]
        ELSE IF c \in contacts_to_update(db, prims)
        THEN [view[c] EXCEPT !.linkedId = main_primary_contact(prims)]
        ELSE view[c]]

\* a gathering that leaves out the children of the main primary
all_related_contacts_NoChildren(db, main, to_update) == {main} \cup to_update

\* all_related_contacts (line 190): the main primary, its children as the
\* table has them, and the rows the merge loop touched
all_related_contacts(db, main, to_update) ==
    {main} \cup secondary_contacts(db, main) \cup to_update

existing_emails(view, related) ==
    {view[c].email : c \in {d \in related : Truthy(view[d].email)}}

existing_phones(view, related) ==
    {view[c].phoneNumber : c \in {d \in related : Truthy(view[d].phoneNumber)}}

\* a check that takes every supplied email for new
new_email_Always(view, related, email) == Truthy(email)

new_email(view, related, email) ==
    Truthy(email) /\ email \notin existing_emails(view, related)

\* a check that compares the phone with the emails of the group
new_phone_WrongSet(view, related, phone_number) ==
    Truthy(phone_number) /\ phone_number \notin existing_emails(view, related)

\* a check that never finds a phone new
new_phone_Never(view, related, phone_number) == FALSE

new_phone(view, related, phone_number) ==
    Truthy(phone_number) /\ phone_number \notin existing_phones(view, related)

\* a flush that writes the linkedId column only
Flush_LinkOnly(db, loaded, merged, added, t) ==
    [c \in DOMAIN db |->
        IF c \in DOMAIN merged /\ merged[c].linkedId # loaded[c].linkedId
        THEN [db[c] EXCEPT !.linkedId = merged[c].linkedId, !.updatedAt = t]
        ELSE db[c]] \o added

\* db.commit(): one UPDATE per row the session changed, setting the columns
\* whose value differs from the loaded one (onupdate bumps updatedAt), then
\* the INSERT of the added row, if any
Flush(db, loaded, merged, added, t) ==
    LET dirty(c) == c \in DOMAIN merged
                      /\ \/ merged[c].linkedId # loaded[c].linkedId
                         \/ merged[c].linkPrecedence # loaded[c].linkPrecedence
        updated == [c \in DOMAIN db |->
                       IF dirty(c)
                       THEN [db[c] EXCEPT
                               !.linkedId = IF merged[c].linkedId # loaded[c].linkedId
                                            THEN merged[c].linkedId ELSE @,
                               !.linkPrecedence =
                                   IF merged[c].linkPrecedence # loaded[c].linkPrecedence
                                   THEN merged[c].linkPrecedence ELSE @,
                               !.updatedAt = t]
                       ELSE db[c]]
    IN updated \o added

\* a validation that lets an empty phoneNumber through
Invalid_NoneOnly(email, phone_number) == email = Null /\ phone_number = Null

\* line 106: neither an email nor a phone number
Invalid(email, phone_number) == ~Truthy(email) /\ ~Truthy(phone_number)

\* the rows a request's two queries may match (lines 113-117)
EmailRows(db, email) == IF Truthy(email) THEN ByEmail(db, email) ELSE {}

\* a request that never queries by phone number
PhoneRows_None(db, phone_number) == {}

PhoneRows(db, phone_number) ==
    IF Truthy(phone_number) THEN ByPhone(db, phone_number) ELSE {}

\* every unique_matching_contacts the two queries may produce
Matches(db, email, phone_number) ==
    {unique_matching_contacts(eRows, pRows) :
        eRows \in Orderings(EmailRows(db, email)),
        pRows \in Orderings(PhoneRows(db, phone_number))}

\* the row added by the request, if any (lines 125-130, 199-207)
Added(db, email, phone_number, matched, t) ==
    IF matched = << >>
    THEN <<Contact(email, phone_number, NoId, primary, t)>>
    ELSE LET prims == primary_contacts(db, matched)
             view == MergedView(db, db, prims)
             related == all_related_contacts(db, main_primary_contact(prims),
                                             contacts_to_update(db, prims))
         IN IF new_email(view, related, email) \/ new_phone(view, related, phone_number)
            THEN <<Contact(email, phone_number, main_primary_contact(prims), secondary, t)>>
            ELSE << >>

\* the table after a request that matched `matched` has committed
Committed(db, email, phone_number, matched, t) ==
    IF matched = << >>
    THEN db \o Added(db, email, phone_number, matched, t)
    ELSE Flush(db, db, MergedView(db, db, primary_contacts(db, matched)),
               Added(db, email, phone_number, matched, t), t)

\* every table one request may leave behind
identify_contact(db, email, phone_number, t) ==
    {Committed(db, email, phone_number, m, t) : m \in Matches(db, email, phone_number)}

\* ------------------------------------------------------------ the response
\* sorted(list(set(ids)))
RECURSIVE SortedIds(_)
SortedIds(S) ==
    IF S = {} THEN << >>
    ELSE LET m == CHOOSE x \in S : \A y \in S : x <= y
         IN <<m>> \o SortedIds(S \ {m})

\* a response of the create branch that lists the new row as a secondary
CreateResponse_ListsSelf(db, email, phone_number) ==
    [primaryContatctId |-> Len(db) + 1,
     emails |-> IF Truthy(email) THEN <<email>> ELSE << >>,
     phoneNumbers |-> IF Truthy(phone_number) THEN <<phone_number>> ELSE << >>,
     secondaryContactIds |-> <<Len(db) + 1>>]

\* lines 134-139: the response of the create branch, on the table it found
CreateResponse(db, email, phone_number) ==
    [primaryContatctId |-> Len(db) + 1,
     emails |-> IF Truthy(email) THEN <<email>> ELSE << >>,
     phoneNumbers |-> IF Truthy(phone_number) THEN <<phone_number>> ELSE << >>,
     secondaryContactIds |-> << >>]

\* line 219: the main primary and its children, read after the commit
final_group(post, main) == {main} \cup secondary_contacts(post, main)

\* lines 222-229
all_emails(post, main) ==
    {post[c].email : c \in {d \in final_group(post, main) : Truthy(post[d].email)}}

all_phones(post, main) ==
    {post[c].phoneNumber :
        c \in {d \in final_group(post, main) : Truthy(post[d].phoneNumber)}}

\* a list that puts the primary's own value last
OrderedValues_OwnLast(own, all) ==
    {o \o (IF Truthy(own) THEN <<own>> ELSE << >>) : o \in Orderings(all \ {own})}

\* lines 231-241: the primary's own value first, then the rest of the set
\* in the order the iteration of a Python set yields, which is arbitrary
OrderedValues(own, all) ==
    {(IF Truthy(own) THEN <<own>> ELSE << >>) \o o : o \in Orderings(all \ {own})}

\* ids that are not filtered by precedence
secondary_ids_Unfiltered(post, main) == SortedIds(final_group(post, main))

\* lines 244, 250
secondary_ids(post, main) ==
    SortedIds({c \in final_group(post, main) : post[c].linkPrecedence = secondary})

\* lines 213-251: the responses of the reconcile branch
ReconcileResponses(post, main) ==
    {[primaryContatctId |-> main, emails |-> es, phoneNumbers |-> ps,
      secondaryContactIds |-> secondary_ids(post, main)] :
        es \in OrderedValues(post[main].email, all_emails(post, main)),
        ps \in OrderedValues(post[main].phoneNumber, all_phones(post, main))}

\* every table and response one valid request may produce
Outcomes(db, email, phone_number, t) ==
    UNION {LET post == Committed(db, email, phone_number, m, t)
           IN {[table |-> post, response |-> r] :
                  r \in IF m = << >>
                        THEN {CreateResponse(db, email, phone_number)}
                        ELSE ReconcileResponses(post,
                                 main_primary_contact(primary_contacts(db, m)))} :
              m \in Matches(db, email, phone_number)}

\* the handler from its first line: the status and the table it leaves
Handled(db, email, phone_number, t) ==
    IF Invalid(email, phone_number)
    THEN {[status |-> "400", table |-> db]}
    ELSE {[status |-> "200", table |-> post] :
             post \in identify_contact(db, email, phone_number, t)}

NoResponse ==
    [primaryContatctId |-> NoId, emails |-> << >>, phoneNumbers |-> << >>,
     secondaryContactIds |-> << >>]

\* what is known of the last request: how it ended, the primaries it resolved
\* (primary_contacts), those of them reached only through a matched
\* secondary, the id of the row it created, and its response
NoRequest ==
    [status |-> "none", prims |-> << >>, traced |-> {}, created |-> NoId,
     response |-> NoResponse]

\* a worker thread with no request
Idle ==
    [pc |-> "idle", email |-> Null, phoneNumber |-> Null, loaded |-> << >>,
     view |-> << >>, eRows |-> << >>, matched |-> << >>, prims |-> << >>,
     to_update |-> {}, add |-> FALSE, dirty |-> {}, txn |-> << >>]

Workers == 1..NumWorkers

Init ==
    /\ contacts = << >>
    /\ now = 0
    /\ last = NoRequest
    /\ sess = [w \in Workers |-> Idle]
    /\ initial = << >>

\* the database clock advances
Tick ==
    /\ now < MaxClock
    /\ now' = now + 1
    /\ UNCHANGED <<contacts, last, sess, initial>>

\* lines 106-110: neither field supplied
Reject(email, phone_number) ==
    /\ Invalid(email, phone_number)
    /\ last' = [NoRequest EXCEPT !.status = "400"]
    /\ UNCHANGED <<contacts, now, sess, initial>>

\* lines 122-140: no row matches
CreatePrimary(email, phone_number) ==
    /\ ~Invalid(email, phone_number)
    /\ Matches(contacts, email, phone_number) = {<< >>}
    /\ Len(contacts) < MaxRecords
    /\ contacts' = Committed(contacts, email, phone_number, << >>, now)
    /\ last' = [NoRequest EXCEPT !.status = "created", !.created = Len(contacts) + 1,
                                 !.response = CreateResponse(contacts, email, phone_number)]
    /\ UNCHANGED <<now, sess, initial>>

\* lines 142-211: some row matches
Reconcile(email, phone_number) ==
    /\ ~Invalid(email, phone_number)
    /\ \E matched \in Matches(contacts, email, phone_number) :
        /\ matched # << >>
        /\ Len(Committed(contacts, email, phone_number, matched, now)) <= MaxRecords
        /\ contacts' = Committed(contacts, email, phone_number, matched, now)
        /\ \E response \in ReconcileResponses(contacts',
                    main_primary_contact(primary_contacts(contacts, matched))) :
            last' = [status |-> "reconciled",
                     prims |-> primary_contacts(contacts, matched),
                     traced |-> Range(primary_contacts(contacts, matched)) \ Range(matched),
                     created |-> IF Len(contacts') > Len(contacts)
                                 THEN Len(contacts') ELSE NoId,
                     response |-> response]
    /\ UNCHANGED <<now, sess, initial>>

Identify ==
    \E email \in RequestEmails, phone_number \in RequestPhones :
        \/ Reject(email, phone_number)
        \/ CreatePrimary(email, phone_number)
        \/ Reconcile(email, phone_number)

Next == Tick \/ Identify

Spec == Init /\ [][Next]_vars

\* ------------------------------------------------------------ concurrent requests
\* The endpoint is a plain def, which the framework runs on a thread pool,
\* each request with a session of its own (get_db).  The sessions are not
\* serialized: every SELECT reads the table as committed at that moment, a
\* session keeps the attributes of a row as it first loaded them, and
\* db.commit() writes the session's changes in one transaction.

\* rows entering a session's identity map: a row already loaded keeps its
\* attributes
Load(held, db, rows) ==
    [c \in DOMAIN held \cup rows |-> IF c \in DOMAIN held THEN held[c] ELSE db[c]]

\* tables that requests served one at a time leave behind, found by the
\* concurrent requests: the empty table, and three unrelated primaries
SeedTables ==
    {<< >>,
     <<Contact("e1", Null, NoId, primary, 0),
       Contact("e2", "p1", NoId, primary, 0),
       Contact(Null, "p2", NoId, primary, 0)>>}

ConcInit ==
    /\ contacts \in SeedTables
    /\ now = 0
    /\ last = NoRequest
    /\ sess = [w \in Workers |-> Idle]
    /\ initial = contacts

\* lines 103-110: a request arrives and passes validation
Begin(w, email, phone_number) ==
    /\ sess[w].pc = "idle"
    /\ ~Invalid(email, phone_number)
    /\ sess' = [sess EXCEPT ![w] = [Idle EXCEPT !.pc = "query_email", !.email = email,
                                               !.phoneNumber = phone_number]]
    /\ UNCHANGED <<contacts, now, last, initial>>

\* lines 114-115
QueryEmail(w) ==
    /\ sess[w].pc = "query_email"
    /\ \E rows \in Orderings(EmailRows(contacts, sess[w].email)) :
        sess' = [sess EXCEPT ![w].pc = "query_phone",
                             ![w].eRows = rows,
                             ![w].loaded = Load(@, contacts, Range(rows)),
                             ![w].view = Load(@, contacts, Range(rows))]
    /\ UNCHANGED <<contacts, now, last, initial>>

\* lines 116-122
QueryPhone(w) ==
    /\ sess[w].pc = "query_phone"
    /\ \E rows \in Orderings(PhoneRows(contacts, sess[w].phoneNumber)) :
        LET matched == unique_matching_contacts(sess[w].eRows, rows)
        IN sess' = [sess EXCEPT ![w].pc = IF matched = << >> THEN "insert" ELSE "resolve",
                                ![w].matched = matched,
                                ![w].loaded = Load(@, contacts, Range(rows)),
                                ![w].view = Load(@, contacts, Range(rows))]
    /\ UNCHANGED <<contacts, now, last, initial>>

\* lines 125-131: no row matched, the new primary is committed
InsertPrimary(w) ==
    /\ sess[w].pc = "insert"
    /\ contacts' = contacts
                     \o <<Contact(sess[w].email, sess[w].phoneNumber, NoId, primary, now)>>
    /\ sess' = [sess EXCEPT ![w].pc = "done"]
    /\ UNCHANGED <<now, last, initial>>

\* lines 146-164: sec_contact.primary_contact loads the rows not yet held
Resolve(w) ==
    /\ sess[w].pc = "resolve"
    /\ LET owners == {sess[w].view[c].linkedId :
                         c \in {d \in Range(sess[w].matched) :
                                   /\ sess[w].view[d].linkPrecedence = secondary
                                   /\ sess[w].view[d].linkedId # NoId}}
           held == Load(sess[w].view, contacts, owners)
       IN sess' = [sess EXCEPT ![w].pc = "merge",
                               ![w].loaded = Load(@, contacts, owners),
                               ![w].view = held,
                               ![w].prims = primary_contacts(held, sess[w].matched)]
    /\ UNCHANGED <<contacts, now, last, initial>>

\* lines 171-184: contact.secondary_contacts loads the children of the
\* demoted primaries as the table has them now
Merge(w) ==
    /\ sess[w].pc = "merge"
    /\ LET to_update == contacts_to_update(contacts, sess[w].prims)
       IN sess' = [sess EXCEPT ![w].pc = "check",
                               ![w].to_update = to_update,
                               ![w].loaded = Load(@, contacts, to_update),
                               ![w].view = MergedView(Load(@, contacts, to_update),
                                                      contacts, sess[w].prims)]
    /\ UNCHANGED <<contacts, now, last, initial>>

\* lines 190-208: main_primary_contact.secondary_contacts is loaded, then
\* the new-information check
Check(w) ==
    /\ sess[w].pc = "check"
    /\ LET main == main_primary_contact(sess[w].prims)
           related == all_related_contacts(contacts, main, sess[w].to_update)
           held == Load(sess[w].view, contacts, related)
       IN sess' = [sess EXCEPT ![w].pc = "commit",
                               ![w].loaded = Load(@, contacts, related),
                               ![w].view = held,
                               ![w].add = new_email(held, related, sess[w].email)
                                           \/ new_phone(held, related, sess[w].phoneNumber)]
    /\ UNCHANGED <<contacts, now, last, initial>>

\* line 211
Commit(w) ==
    /\ sess[w].pc = "commit"
    /\ contacts' = Flush(contacts, sess[w].loaded, sess[w].view,
                         IF sess[w].add
                         THEN <<Contact(sess[w].email, sess[w].phoneNumber,
                                       main_primary_contact(sess[w].prims), secondary, now)>>
                         ELSE << >>,
                         now)
    /\ sess' = [sess EXCEPT ![w].pc = "done"]
    /\ UNCHANGED <<now, last, initial>>

\* the clock, while requests are in flight
ConcTick ==
    /\ now < MaxClock
    /\ now' = now + 1
    /\ UNCHANGED <<contacts, last, sess, initial>>

Arrive(w) ==
    \E email \in RequestEmails, phone_number \in RequestPhones :
        Begin(w, email, phone_number)

ConcNext ==
    \/ ConcTick
    \/ \E w \in Workers :
        \/ Arrive(w)
        \/ QueryEmail(w)
        \/ QueryPhone(w)
        \/ InsertPrimary(w)
        \/ Resolve(w)
        \/ Merge(w)
        \/ Check(w)
        \/ Commit(w)

ConcSpec == ConcInit /\ [][ConcNext]_vars

\* ------------------------------------------------------------ a failing store
\* Requests served one at a time, with db.commit() taken apart: the session
\* is made with autocommit=False (line 20), so the flush runs its UPDATEs
\* and its INSERT inside one transaction of the connection and the COMMIT
\* ends it.  The store may fail at any statement or at the COMMIT; the
\* exception leaves the endpoint and get_db closes the session (lines
\* 66-68), which rolls the transaction back.

\* a store without transactions: a statement shows at once
Visible_Uncommitted(db, txn) == txn

\* the table as the other connections see it while a transaction with the
\* private table `txn` is open (line 20)
Visible(db, txn) == db

\* the rows the flush has to UPDATE
DirtyRows(loaded, merged) ==
    {c \in DOMAIN merged : \/ merged[c].linkedId # loaded[c].linkedId
                           \/ merged[c].linkPrecedence # loaded[c].linkPrecedence}

NoSessionOpen == \A w \in Workers : sess[w] = Idle

\* lines 94-208: a request arrives, passes validation and reads; its changes
\* wait in the session
Read(w, email, phone_number) ==
    /\ NoSessionOpen
    /\ ~Invalid(email, phone_number)
    /\ \E matched \in Matches(contacts, email, phone_number) :
        /\ Len(Committed(contacts, email, phone_number, matched, now)) <= MaxRecords
        /\ LET prims == IF matched = << >> THEN << >>
                        ELSE primary_contacts(contacts, matched)
               view == IF matched = << >> THEN contacts
                       ELSE MergedView(contacts, contacts, prims)
           IN sess' = [sess EXCEPT ![w] =
                        [Idle EXCEPT !.pc = "flush", !.email = email,
                                     !.phoneNumber = phone_number, !.matched = matched,
                                     !.prims = prims, !.loaded = contacts, !.view = view,
                                     !.dirty = DirtyRows(contacts, view),
                                     !.add = Added(contacts, email, phone_number,
                                                   matched, now) # << >>,
                                     !.txn = contacts]]
    /\ initial' = contacts
    /\ UNCHANGED <<contacts, now, last>>

\* line 211, one UPDATE of the flush
ExecuteUpdate(w) ==
    /\ sess[w].pc = "flush"
    /\ \E c \in sess[w].dirty :
        LET txn == Flush(sess[w].txn, sess[w].loaded,
                         [d \in {c} |-> sess[w].view[d]], << >>, now)
        IN /\ sess' = [sess EXCEPT ![w].txn = txn, ![w].dirty = @ \ {c}]
           /\ contacts' = Visible(contacts, txn)
    /\ UNCHANGED <<now, last, initial>>

\* lines 131 and 211, the INSERT of the flush
ExecuteInsert(w) ==
    /\ sess[w].pc = "flush"
    /\ sess[w].add
    /\ LET txn == Flush(sess[w].txn, << >>, << >>,
                        Added(initial, sess[w].email, sess[w].phoneNumber,
                              sess[w].matched, now), now)
       IN /\ sess' = [sess EXCEPT ![w].txn = txn, ![w].add = FALSE]
          /\ contacts' = Visible(contacts, txn)
    /\ UNCHANGED <<now, last, initial>>

\* lines 131 and 211, the COMMIT
CommitTransaction(w) ==
    /\ sess[w].pc = "flush"
    /\ sess[w].dirty = {}
    /\ ~sess[w].add
    /\ contacts' = sess[w].txn
    /\ sess' = [sess EXCEPT ![w].pc = "done"]
    /\ UNCHANGED <<now, last, initial>>

\* the store fails at a statement or at the COMMIT: the exception leaves
\* the endpoint
StoreFails(w) ==
    /\ sess[w].pc = "flush"
    /\ sess' = [sess EXCEPT ![w].pc = "failed"]
    /\ UNCHANGED <<contacts, now, last, initial>>

\* lines 66-68: db.close() ends the session and whatever transaction it
\* still has
Close(w) ==
    /\ sess[w].pc \in {"done", "failed"}
    /\ sess' = [sess EXCEPT ![w] = Idle]
    /\ UNCHANGED <<contacts, now, last, initial>>

\* the clock, between requests
FailTick ==
    /\ NoSessionOpen
    /\ now < MaxClock
    /\ now' = now + 1
    /\ UNCHANGED <<contacts, last, sess, initial>>

ReadSome(w) ==
    \E email \in RequestEmails, phone_number \in RequestPhones :
        Read(w, email, phone_number)

FailNext ==
    \/ FailTick
    \/ \E w \in Workers :
        \/ ReadSome(w)
        \/ ExecuteUpdate(w)
        \/ ExecuteInsert(w)
        \/ CommitTransaction(w)
        \/ StoreFails(w)
        \/ Close(w)

FailSpec == Init /\ [][FailNext]_vars

\* ------------------------------------------------------------ notions of the claims
\* the primary a row belongs to
Owner(db, c) == IF db[c].linkPrecedence = primary THEN c ELSE db[c].linkedId

\* the rows of the group of primary o
Members(db, o) == {c \in Ids(db) : Owner(db, c) = o}

\* the rows an observation matches, and the primaries owning them
MatchedRows(db, email, phone_number) ==
    EmailRows(db, email) \cup PhoneRows(db, phone_number)

Owners(db, email, phone_number) ==
    {Owner(db, c) : c \in MatchedRows(db, email, phone_number)}

\* the observations that get past validation
Observations ==
    {o \in RequestEmails \X RequestPhones : Truthy(o[1]) \/ Truthy(o[2])}

\* the tables the request (email, phone_number), served now, may leave
After(email, phone_number) == identify_contact(contacts, email, phone_number, now)

HeldEmails(db, o) == {db[c].email : c \in {d \in Members(db, o) : Truthy(db[d].email)}}

HeldPhones(db, o) ==
    {db[c].phoneNumber : c \in {d \in Members(db, o) : Truthy(db[d].phoneNumber)}}

\* the observation supplies a value no member of o's group holds
NewInformation(db, o, email, phone_number) ==
    \/ Truthy(email) /\ email \notin HeldEmails(db, o)
    \/ Truthy(phone_number) /\ phone_number \notin HeldPhones(db, o)

\* ------------------------------------------------------------ C1
\* C1: after any sequence of requests served one at a time from an empty
\* table, every secondary row's linkedId is the id of an existing row that
\* is primary: link depth is exactly one.
C1_LinkDepthOne ==
    \A c \in Ids(contacts) :
        contacts[c].linkPrecedence = secondary =>
            /\ contacts[c].linkedId \in Ids(contacts)
            /\ contacts[contacts[c].linkedId].linkPrecedence = primary

\* a merge that reached one of its groups only through a matched secondary
\* and re-pointed a row that is none of the resolved primaries
C1_Witness ==
    /\ last.status = "reconciled"
    /\ Len(last.prims) >= 2
    /\ last.traced # {}
    /\ \E c \in Ids(contacts) :
        /\ c \notin Range(last.prims)
        /\ c # last.created
        /\ contacts[c].linkedId = last.prims[1]
        /\ contacts[c].updatedAt > contacts[c].createdAt

\* ------------------------------------------------------------ C2
\* C2: after a request whose matched rows belong to two or more groups, the
\* primary that survives is the owning primary with the smallest createdAt
\* and, among equal createdAt, the smallest id.
C2_OldestThenSmallestId ==
    (last.status = "reconciled" /\ Len(last.prims) >= 2) =>
        \E s \in Range(last.prims) :
            /\ contacts[s].linkPrecedence = primary
            /\ \A o \in Range(last.prims) \ {s} :
                \/ contacts[s].createdAt < contacts[o].createdAt
                \/ contacts[s].createdAt = contacts[o].createdAt /\ s < o

\* ------------------------------------------------------------ C3
\* C3: after a request whose matched rows span two or more groups, one owning
\* primary survives, every other owning primary is secondary and linked to
\* the survivor, every row that was linked to one of those is linked to the
\* survivor, and no row of these groups points to a demoted row.
C3_MergeRepoints ==
    \A ob \in Observations : \A post \in After(ob[1], ob[2]) :
        Cardinality(Owners(contacts, ob[1], ob[2])) >= 2 =>
          \E s \in Owners(contacts, ob[1], ob[2]) :
            /\ post[s].linkPrecedence = primary
            /\ \A o \in Owners(contacts, ob[1], ob[2]) \ {s} :
                /\ post[o].linkPrecedence = secondary
                /\ post[o].linkedId = s
                /\ \A c \in Ids(contacts) :
                     contacts[c].linkedId = o => post[c].linkedId = s
            /\ \A c \in Ids(contacts) :
                 Owner(contacts, c) \in Owners(contacts, ob[1], ob[2]) =>
                    post[c].linkedId \notin Owners(contacts, ob[1], ob[2]) \ {s}

\* a merge has demoted a primary that had a secondary of its own
C3_Witness ==
    /\ last.status = "reconciled"
    /\ Len(last.prims) >= 2
    /\ \E c \in Ids(contacts) :
        /\ c \notin Range(last.prims)
        /\ c # last.created
        /\ contacts[c].createdAt < contacts[c].updatedAt
        /\ contacts[c].updatedAt = contacts[last.prims[2]].updatedAt

\* ------------------------------------------------------------ C4
\* every worker has served its request
AllDone == \A w \in Workers : sess[w].pc = "done"

\* the tables left by serving the requests of the workers in `order` one
\* after the other, the first no earlier than t
RECURSIVE SerialRuns(_, _, _)
SerialRuns(db, order, t) ==
    IF order = << >> THEN {db}
    ELSE UNION {UNION {SerialRuns(mid, Tail(order), u) :
                          mid \in identify_contact(db, sess[Head(order)].email,
                                                   sess[Head(order)].phoneNumber, u)} :
                   u \in t..MaxClock}

\* C4: the requests served concurrently leave a table that serving them one
\* after the other, in some order, leaves too; two concurrent requests with
\* the same observation against the empty table leave one row.
C4_Serializable ==
    AllDone => \E order \in Orderings(Workers) : contacts \in SerialRuns(initial, order, 0)

\* ------------------------------------------------------------ C5
\* C5: once the concurrent requests have completed, no secondary row's
\* linkedId points to a row that is itself secondary.
C5_NoChainAfterConcurrentMerges ==
    AllDone =>
        \A c \in Ids(contacts) :
            contacts[c].linkPrecedence = secondary =>
                /\ contacts[c].linkedId \in Ids(contacts)
                /\ contacts[contacts[c].linkedId].linkPrecedence # secondary

\* ------------------------------------------------------------ C6
\* C6: a served observation submitted again at once creates no row and
\* changes no row, whatever the time of the second call; and the first
\* request against the empty table leaves exactly one row, a primary.
C6_Idempotent ==
    \A ob \in Observations : \A post \in After(ob[1], ob[2]) :
        /\ \A t \in now..MaxClock :
              identify_contact(post, ob[1], ob[2], t) = {post}
        /\ contacts = << >> => Len(post) = 1 /\ post[1].linkPrecedence = primary

\* the table after the one row of the first call was matched by a call
\* that added nothing
C6_Witness ==
    /\ Len(contacts) = 1
    /\ last.status = "reconciled"
    /\ last.created = NoId

\* ------------------------------------------------------------ C7
\* no two rows of one group carry the same (email, phoneNumber) pair
UniquePairs ==
    \A c, d \in Ids(contacts) :
        (c # d /\ Owner(contacts, c) = Owner(contacts, d)) =>
            <<contacts[c].email, contacts[c].phoneNumber>>
                # <<contacts[d].email, contacts[d].phoneNumber>>

\* a secondary is created only for an observation whose email or phone no
\* other member of the group it joins holds
CreatedOnlyForNewValue ==
    \A ob \in Observations : \A post \in After(ob[1], ob[2]) :
        (Len(post) > Len(contacts) /\ post[Len(post)].linkPrecedence = secondary) =>
            LET n == Len(post)
                others == Members(post, post[n].linkedId) \ {n}
            IN \/ /\ Truthy(ob[1])
                  /\ \A c \in others : post[c].email # ob[1]
               \/ /\ Truthy(ob[2])
                  /\ \A c \in others : post[c].phoneNumber # ob[2]

\* C7: no two distinct rows of the same group have the same (email,
\* phoneNumber) pair, and a new secondary is created only when the
\* observation's email or phone is held by no member of the group it joins,
\* the group being taken after the merge of the same request.
C7_NoDuplicatePairs == UniquePairs /\ CreatedOnlyForNewValue

\* a secondary was attached to a group that already had two members
C7_Witness ==
    /\ last.status = "reconciled"
    /\ last.created = 3
    /\ Cardinality(Members(contacts, last.prims[1])) = 3

\* ------------------------------------------------------------ C8
\* C8: the primary of every group has the smallest createdAt of all the rows
\* of its group.
C8_OldestIsPrimary ==
    \A c \in Ids(contacts) :
        /\ Owner(contacts, c) \in Ids(contacts)
        /\ contacts[Owner(contacts, c)].createdAt <= contacts[c].createdAt

\* a merge of two primaries created at different times has happened
C8_Witness ==
    /\ last.status = "reconciled"
    /\ Len(last.prims) >= 2
    /\ contacts[last.prims[1]].createdAt < contacts[last.prims[2]].createdAt

\* ------------------------------------------------------------ C9
\* C9: a row has a linkedId if and only if it is secondary.
C9_LinkedIffSecondary ==
    \A c \in Ids(contacts) :
        (contacts[c].linkedId # NoId) <=> (contacts[c].linkPrecedence = secondary)

\* a merge has left a primary without a link, a demoted primary linked to
\* it and one more secondary
C9_Witness ==
    /\ last.status = "reconciled"
    /\ Len(last.prims) >= 2
    /\ contacts[last.prims[1]].linkedId = NoId
    /\ contacts[last.prims[2]].linkedId = last.prims[1]
    /\ \E c \in Ids(contacts) \ Range(last.prims) :
          contacts[c].linkPrecedence = secondary

\* ------------------------------------------------------------ C10
\* C10: when the matched rows all belong to one group and the observation
\* supplies an email or a phone that no member of the group holds, the
\* request adds exactly one row, secondary, linked to the group's primary,
\* carrying the email and the phone as submitted, and changes no other row.
C10_Attach ==
    \A ob \in Observations : \A post \in After(ob[1], ob[2]) :
        \A o \in Owners(contacts, ob[1], ob[2]) :
          (Owners(contacts, ob[1], ob[2]) = {o}
              /\ NewInformation(contacts, o, ob[1], ob[2])) =>
            /\ Len(post) = Len(contacts) + 1
            /\ SubSeq(post, 1, Len(contacts)) = contacts
            /\ post[Len(post)].linkPrecedence = secondary
            /\ post[Len(post)].linkedId = o
            /\ post[Len(post)].email = ob[1]
            /\ post[Len(post)].phoneNumber = ob[2]

\* a request resolved one primary and attached a secondary to it
C10_Witness ==
    /\ last.status = "reconciled"
    /\ Len(last.prims) = 1
    /\ last.created = Len(contacts)
    /\ contacts[last.created].linkedId = last.prims[1]

\* ------------------------------------------------------------ C11
\* C11: when the matched rows all belong to one group and every field the
\* observation supplies already occurs in that group, the request leaves the
\* table as it was.
C11_Noop ==
    \A ob \in Observations : \A post \in After(ob[1], ob[2]) :
        \A o \in Owners(contacts, ob[1], ob[2]) :
          (Owners(contacts, ob[1], ob[2]) = {o}
              /\ ~NewInformation(contacts, o, ob[1], ob[2])) =>
            post = contacts

\* a request found one group of several rows and added nothing
C11_Witness ==
    /\ last.status = "reconciled"
    /\ Len(last.prims) = 1
    /\ last.created = NoId
    /\ Cardinality(Members(contacts, last.prims[1])) >= 2

\* ------------------------------------------------------------ C12
\* the outcomes of the request (email, phone_number) served now
OutcomesNow(email, phone_number) == Outcomes(contacts, email, phone_number, now)

\* C12: when no row has the observation's email or phone, the request adds
\* exactly one row, primary, without linkedId, with the given email and
\* phone, changes no other row, and returns the new id with no secondary ids.
C12_CreatePrimary ==
    \A ob \in Observations : \A out \in OutcomesNow(ob[1], ob[2]) :
        MatchedRows(contacts, ob[1], ob[2]) = {} =>
            /\ Len(out.table) = Len(contacts) + 1
            /\ SubSeq(out.table, 1, Len(contacts)) = contacts
            /\ out.table[Len(out.table)].linkPrecedence = primary
            /\ out.table[Len(out.table)].linkedId = NoId
            /\ out.table[Len(out.table)].email = ob[1]
            /\ out.table[Len(out.table)].phoneNumber = ob[2]
            /\ out.response.primaryContatctId = Len(out.table)
            /\ out.response.secondaryContactIds = << >>

\* a primary was created beside an existing row
C12_Witness ==
    /\ last.status = "created"
    /\ Len(contacts) >= 2
    /\ last.response.primaryContatctId = Len(contacts)
    /\ contacts[Len(contacts)].linkPrecedence = primary

\* ------------------------------------------------------------ C13
\* row a is older than row b
Older(db, a, b) ==
    \/ db[a].createdAt < db[b].createdAt
    \/ db[a].createdAt = db[b].createdAt /\ a < b

\* C13: for two primaries P1 (older) and P2, the observation with P1's email
\* and P2's phone demotes P2 under P1, creates no row, and returns P1's id as
\* primary with P2's id among the secondary ids.
C13_MergeWithoutCreate ==
    \A p1, p2 \in Ids(contacts) :
        (/\ p1 # p2
         /\ contacts[p1].linkPrecedence = primary
         /\ contacts[p2].linkPrecedence = primary
         /\ contacts[p1].email \in Emails
         /\ contacts[p2].phoneNumber \in PhoneNumbers
         /\ Older(contacts, p1, p2)) =>
            \A out \in OutcomesNow(contacts[p1].email, contacts[p2].phoneNumber) :
                /\ Len(out.table) = Len(contacts)
                /\ out.table[p1].linkPrecedence = primary
                /\ out.table[p2].linkPrecedence = secondary
                /\ out.table[p2].linkedId = p1
                /\ out.response.primaryContatctId = p1
                /\ p2 \in Range(out.response.secondaryContactIds)

\* a merge of two primaries, the older one surviving, that created no row
C13_Witness ==
    /\ last.status = "reconciled"
    /\ Len(last.prims) = 2
    /\ last.traced = {}
    /\ last.created = NoId
    /\ last.prims[1] < last.prims[2]
    /\ last.response.primaryContatctId = last.prims[1]
    /\ last.prims[2] \in Range(last.response.secondaryContactIds)

\* ------------------------------------------------------------ C14
\* the last request was served
Answered == last.status \in {"created", "reconciled"}

\* C14: the returned primary id is the id of a primary row of the table the
\* request left, and that row's email and phone, when it has them, head the
\* returned lists.
C14_PrimaryFirst ==
    Answered =>
        LET p == last.response.primaryContatctId
        IN /\ p \in Ids(contacts)
           /\ contacts[p].linkPrecedence = primary
           /\ contacts[p].email \in Emails =>
                /\ last.response.emails # << >>
                /\ last.response.emails[1] = contacts[p].email
           /\ contacts[p].phoneNumber \in PhoneNumbers =>
                /\ last.response.phoneNumbers # << >>
                /\ last.response.phoneNumbers[1] = contacts[p].phoneNumber

\* a response with two emails, the first one the primary's
C14_Witness ==
    /\ last.status = "reconciled"
    /\ Len(last.response.emails) >= 2
    /\ last.response.emails[1] = contacts[last.response.primaryContatctId].email

\* ------------------------------------------------------------ C15
\* the distinct values of a scan, in the order first met
RECURSIVE FirstMet(_)
FirstMet(vals) ==
    IF vals = << >> THEN << >>
    ELSE LET r == FirstMet(SubSeq(vals, 1, Len(vals) - 1))
             v == vals[Len(vals)]
         IN IF v \in {Null, EmptyStr} \/ v \in Range(r) THEN r ELSE Append(r, v)

\* the primary, then its secondaries by ascending id
ScanOrder(db, p) ==
    <<p>> \o SortedIds({c \in Ids(db) : c # p /\ db[c].linkedId = p})

\* the emails and the phones of the group of p, in scan order
ScannedEmails(db, p) ==
    [i \in DOMAIN ScanOrder(db, p) |-> db[ScanOrder(db, p)[i]].email]

ScannedPhones(db, p) ==
    [i \in DOMAIN ScanOrder(db, p) |-> db[ScanOrder(db, p)[i]].phoneNumber]

\* C15: the returned emails are the primary's email followed by the other
\* emails of the group in the order first met when the secondaries are
\* scanned by ascending id, without duplicates; the same for the phones.
C15_ScanOrder ==
    Answered =>
        LET p == last.response.primaryContatctId
        IN /\ last.response.emails = FirstMet(ScannedEmails(contacts, p))
           /\ last.response.phoneNumbers
                 = FirstMet(ScannedPhones(contacts, p))

\* ------------------------------------------------------------ C16
\* C16: the returned secondary ids are exactly the ids of the rows that are
\* secondary and linked to the returned primary in the table the request
\* left, in ascending order, each once.
C16_SecondaryIds ==
    Answered =>
        LET p == last.response.primaryContatctId
            ids == last.response.secondaryContactIds
        IN /\ Range(ids) = {c \in Ids(contacts) :
                              /\ contacts[c].linkPrecedence = secondary
                              /\ contacts[c].linkedId = p}
           /\ \A i, j \in DOMAIN ids : i < j => ids[i] < ids[j]

\* a response that lists two secondaries
C16_Witness ==
    /\ last.status = "reconciled"
    /\ Len(last.response.secondaryContactIds) >= 2

\* ------------------------------------------------------------ C17
\* C17: a request with neither an email nor a phone, absent or empty, ends
\* with the client error and leaves the table as it was.
C17_RejectsEmpty ==
    \A phone_number \in {Null, EmptyStr} :
        Handled(contacts, Null, phone_number, now)
            = {[status |-> "400", table |-> contacts]}

\* a request was rejected while the table held rows
C17_Witness ==
    /\ last.status = "400"
    /\ contacts # << >>

\* ------------------------------------------------------------ C18
\* C18: the table the other connections see changes only by a whole request:
\* each step either leaves it as it was or is the COMMIT of a request and
\* leaves a table the whole request produces; while a request is flushing
\* and after it failed, the table is the one the request found.
C18_AllOrNothing ==
    [][/\ \/ contacts' = contacts
          \/ \E w \in Workers :
                /\ sess[w].pc = "flush"
                /\ sess'[w].pc = "done"
                /\ contacts' \in identify_contact(contacts, sess[w].email,
                                                   sess[w].phoneNumber, now)
       /\ \A w \in Workers :
            sess'[w].pc \in {"flush", "failed"} => contacts' = initial']_vars

\* the store failed when a merge of two primaries had run a part of its
\* statements
C18_Witness ==
    \E w \in Workers :
        /\ sess[w].pc = "failed"
        /\ Len(sess[w].prims) = 2
        /\ sess[w].txn # initial
        /\ sess[w].dirty # {}
        /\ contacts = initial

\* ------------------------------------------------------------ C19
\* C19: no row is ever deleted or replaced, and a row's precedence changes
\* only from primary to secondary.
C19_NeverPromoted ==
    [][/\ Len(contacts') >= Len(contacts)
       /\ \A c \in Ids(contacts) :
            /\ contacts'[c].email = contacts[c].email
            /\ contacts'[c].phoneNumber = contacts[c].phoneNumber
            /\ contacts'[c].createdAt = contacts[c].createdAt
            /\ contacts[c].linkPrecedence = secondary =>
                  contacts'[c].linkPrecedence = secondary]_vars

\* a full table in which a merge has just demoted a primary
C19_Witness ==
    /\ last.status = "reconciled"
    /\ Len(last.prims) >= 2
    /\ Len(contacts) = 3
    /\ contacts[last.prims[2]].linkPrecedence = secondary
    /\ contacts[last.prims[2]].updatedAt > contacts[last.prims[2]].createdAt

\* ------------------------------------------------------------ C20
\* rows that hold the same value of a field, among the values in `held`
ShareValue(db, c, d, held) ==
    \/ db[c].email = db[d].email /\ db[c].email \in held
    \/ db[c].phoneNumber = db[d].phoneNumber /\ db[c].phoneNumber \in held

\* a request that supplies one of the two fields demotes no primary
OneFieldNeverDemotes ==
    \A ob \in Observations : \A post \in After(ob[1], ob[2]) :
        (ob[1] \in {Null, EmptyStr} \/ ob[2] \in {Null, EmptyStr}) =>
            \A c \in Ids(contacts) : post[c].linkPrecedence = contacts[c].linkPrecedence

\* C20: any two rows that hold the same non-null email or the same non-null
\* phone belong to the same group, and a request with one of the two fields
\* never demotes a primary.
C20_SharedValueSameGroup ==
    /\ \A c, d \in Ids(contacts) :
         ShareValue(contacts, c, d, Emails \cup PhoneNumbers \cup {EmptyStr}) =>
            Owner(contacts, c) = Owner(contacts, d)
    /\ OneFieldNeverDemotes

\* C20, amended: any two rows that hold the same non-null, non-empty email
\* or phone belong to the same group, and a request with one of the two
\* fields never demotes a primary.
C20_SharedNonEmptyValueSameGroup ==
    /\ \A c, d \in Ids(contacts) :
         ShareValue(contacts, c, d, Emails \cup PhoneNumbers) =>
            Owner(contacts, c) = Owner(contacts, d)
    /\ OneFieldNeverDemotes

\* a merge has brought the rows holding one phone into one group
C20_Witness ==
    /\ last.status = "reconciled"
    /\ Len(last.prims) = 2
    /\ \E c, d \in Ids(contacts) :
        /\ c # d
        /\ contacts[c].phoneNumber = contacts[d].phoneNumber
        /\ contacts[c].phoneNumber \in PhoneNumbers
        /\ Owner(contacts, c) = last.prims[1]
        /\ Owner(contacts, d) = last.prims[1]

====
